---- MODULE Spec2Model ----
(***************************************************************************)
(* A model of gimirrai's metadata extraction: the KLV decoder of           *)
(* src/gimirrai/decoders/klv.py and the georeference assembly of           *)
(* src/gimirrai/reader.py.                                                  *)
(*                                                                         *)
(* Spec          one call of _decode_metadata on one byte buffer, one      *)
(*               step per iteration of its while loop.                     *)
(* SpecAssemble  one call of get_gimi_metadata over the frames of a file,  *)
(*               one step per frame.                                       *)
(* SpecTimestamp the decode of one precision time stamp and a checksum.    *)
(* SpecTwo       two calls of _decode_metadata side by side, two steps per *)
(*               iteration, sharing the Tag Table.                         *)
(* SpecVrt       get_gimi_metadata followed by calls of get_vrt on the     *)
(*               record it returned.                                       *)
(* SpecQuery     get_gimi_metadata followed by one call of                 *)
(*               GimiCoverageProvider.query on the record it returned.     *)
(*                                                                         *)
(* Python integers are unbounded; the model keeps every number it handles  *)
(* inside 32 bits by holding 8-byte values as base-256 digit sequences and *)
(* angles as a raw count of the unit 90/2147483647 degree                  *)
(* (180/4294967294 = 90/2147483647 and 360/4294967294 = 180/2147483647).   *)
(* Floating-point results are modelled by the exact rational they round.   *)
(***************************************************************************)
EXTENDS Integers, Sequences, FiniteSets, TLC

\* ------------------------------------------------------------------ bounds

\* klv.py:102
max_iterations == 1000

\* number of items the short buffers are concatenated from
MaxItems == 2
\* the long buffers repeat a filler max_iterations - FillSlack .. max_iterations + FillSlack times
FillSlack == 1
\* frames of a file, bands of its raster
MaxFrames == 2
MaxBands == 2

\* ------------------------------------------------------------ small helpers

Min(a, b) == IF a < b THEN a ELSE b

RECURSIVE Flatten(_)
Flatten(ss) == IF ss = <<>> THEN <<>> ELSE Head(ss) \o Flatten(Tail(ss))

\* ------------------------------------------------ wire formats (struct module)

\* struct.calcsize of a format character; "s" is rewritten to f"{size}s" by the decoder
CalcSize(format_, size) ==
    CASE format_ = "B" -> 1
      [] format_ = "H" -> 2
      [] format_ = "l" -> 4
      [] format_ = "L" -> 4
      [] format_ = "Q" -> 8
      [] format_ = "s" -> size

\* big-endian unsigned value of at most 3 bytes, or of 4 bytes whose first is < 128
RECURSIVE BEUnsigned(_)
BEUnsigned(bytes) ==
    IF bytes = <<>> THEN 0
    ELSE 256 * BEUnsigned(SubSeq(bytes, 1, Len(bytes) - 1)) + bytes[Len(bytes)]

\* ">l": two's complement big-endian, 4 bytes
BESigned32(bytes) ==
    IF bytes[1] < 128 THEN BEUnsigned(bytes)
    ELSE (bytes[1] - 256) * 16777216 + BEUnsigned(Tail(bytes))

\* struct.unpack(">" + format_, bytes)[0] for bytes of the right size.
\* "Q" (and "L") values do not fit 32 bits: they stay big-endian digit sequences.
Unpack(format_, bytes) ==
    CASE format_ = "B" -> BEUnsigned(bytes)
      [] format_ = "H" -> BEUnsigned(bytes)
      [] format_ = "l" -> BESigned32(bytes)
      [] format_ = "L" -> bytes
      [] format_ = "Q" -> bytes
      [] format_ = "s" -> bytes

\* -------------------------------------------------------- field transforms

Invalid == <<-1>>

Utf8Width(b0) ==
    IF b0 < 128 THEN 1
    ELSE IF b0 \in 194..223 THEN 2
    ELSE IF b0 \in 224..239 THEN 3
    ELSE IF b0 \in 240..244 THEN 4
    ELSE 0

Utf8SecondOk(b0, b1) ==
    /\ b0 = 224 => b1 >= 160
    /\ b0 = 237 => b1 <= 159
    /\ b0 = 240 => b1 >= 144
    /\ b0 = 244 => b1 <= 143

Utf8CodePoint(s, w) ==
    CASE w = 1 -> s[1]
      [] w = 2 -> (s[1] - 192) * 64 + (s[2] - 128)
      [] w = 3 -> (s[1] - 224) * 4096 + (s[2] - 128) * 64 + (s[3] - 128)
      [] w = 4 -> (s[1] - 240) * 262144 + (s[2] - 128) * 4096
                    + (s[3] - 128) * 64 + (s[4] - 128)

\* bytes.decode("utf-8"), strict: the code points, or Invalid where Python
\* raises UnicodeDecodeError
RECURSIVE Utf8Decode(_)
Utf8Decode(s) ==
    IF s = <<>> THEN <<>>
    ELSE LET w == Utf8Width(s[1]) IN
         IF w = 0 \/ Len(s) < w THEN Invalid
         ELSE IF \E i \in 2..w : s[i] \notin 128..191 THEN Invalid
         ELSE IF w >= 2 /\ ~Utf8SecondOk(s[1], s[2]) THEN Invalid
         ELSE LET rest == Utf8Decode(SubSeq(s, w + 1, Len(s))) IN
              IF rest = Invalid THEN Invalid
              ELSE <<Utf8CodePoint(s, w)>> \o rest

\* a decoded value: every value of the result map has this shape
Value(kind, v) == [kind |-> kind, v |-> v]
None == Value("none", <<>>)

\* an exception leaving a decoder, in place of its value
Raised(e) == Value("raise", <<e>>)

\* value.decode("utf-8", errors="replace")
_decode_string_Replace(value) ==
    LET cps == Utf8Decode(value) IN
    Value("str", IF cps = Invalid THEN <<65533>> ELSE cps)

_decode_string(value) ==
    LET cps == Utf8Decode(value) IN
    IF cps = Invalid THEN Raised("UnicodeDecodeError") ELSE Value("str", cps)

\* (180 / 4_294_967_294) * lat_value = lat_value * 90 / 2147483647
_decode_latitude_coordinate(lat_value) == Value("deg", <<lat_value, 90>>)

\* (360 / 4_294_967_294) * lon_value = lon_value * 180 / 2147483647
_decode_longitude_coordinate(lon_value) == Value("deg", <<lon_value, 180>>)

\* long division of a big-endian base-256 digit sequence by d < 2^23
RECURSIVE LongDivMod(_, _, _, _)
LongDivMod(digits, d, q, r) ==
    IF digits = <<>> THEN [q |-> q, r |-> r]
    ELSE LET cur == r * 256 + Head(digits) IN
         LongDivMod(Tail(digits), d, Append(q, cur \div d), cur % d)

\* date(9999, 12, 31) - date(1970, 1, 1), in days
MaxDays == 2932896

\* epoch + timedelta(microseconds=v): the timedelta is normalised to
\* (days, seconds, microseconds) and the sum raises OverflowError past
\* datetime.max; the except clause logs and the function returns None
_decode_timestamp_LateOverflow(microsecond_value) ==
    LET us   == LongDivMod(microsecond_value, 1000000, <<>>, 0)
        sec  == LongDivMod(us.q, 86400, <<>>, 0)
        days == BEUnsigned(sec.q)
    IN  IF days > MaxDays + 1 THEN None
        ELSE Value("datetime", <<days, sec.r, us.r>>)

\* the value taken as milliseconds, timedelta(milliseconds=v)
_decode_timestamp_Milliseconds(microsecond_value) ==
    LET ms   == LongDivMod(microsecond_value, 1000, <<>>, 0)
        sec  == LongDivMod(ms.q, 86400, <<>>, 0)
        days == BEUnsigned(sec.q)
    IN  IF days > MaxDays THEN None
        ELSE Value("datetime", <<days, sec.r, ms.r * 1000>>)

_decode_timestamp(microsecond_value) ==
    LET us   == LongDivMod(microsecond_value, 1000000, <<>>, 0)
        sec  == LongDivMod(us.q, 86400, <<>>, 0)
        days == BEUnsigned(sec.q)
    IN  IF days > MaxDays THEN None
        ELSE Value("datetime", <<days, sec.r, us.r>>)

\* --------------------------------------------------------------- Tag Table

Entry(name, format_, decoder) == [name |-> name, format_ |-> format_, decoder |-> decoder]

TAG_FORMATS ==
    ( 2 :> Entry("begin_position", "Q", "_decode_timestamp")
   @@ 3 :> Entry("title", "s", "_decode_string")
   @@ 82 :> Entry("pt1_north_bound_latitude", "l", "_decode_latitude_coordinate")
   @@ 83 :> Entry("pt1_west_bound_longitude", "l", "_decode_longitude_coordinate")
   @@ 84 :> Entry("pt2_north_bound_latitude", "l", "_decode_latitude_coordinate")
   @@ 85 :> Entry("pt2_east_bound_longitude", "l", "_decode_longitude_coordinate")
   @@ 86 :> Entry("pt3_south_bound_latitude", "l", "_decode_latitude_coordinate")
   @@ 87 :> Entry("pt3_east_bound_longitude", "l", "_decode_longitude_coordinate")
   @@ 88 :> Entry("pt4_south_bound_latitude", "l", "_decode_latitude_coordinate")
   @@ 89 :> Entry("pt4_west_bound_longitude", "l", "_decode_longitude_coordinate")
   @@ 65 :> Entry("st0601_version", "B", "None")
   @@ 1 :> Entry("checksum", "H", "None") )

\* decoder(value), or value itself when the entry's decoder is None
ApplyDecoder(decoder, value) ==
    CASE decoder = "_decode_timestamp" -> _decode_timestamp(value)
      [] decoder = "_decode_string" -> _decode_string(value)
      [] decoder = "_decode_latitude_coordinate" -> _decode_latitude_coordinate(value)
      [] decoder = "_decode_longitude_coordinate" -> _decode_longitude_coordinate(value)
      [] decoder = "None" -> Value("int", <<value>>)

\* does decoder(value) raise?  Only _decode_string can (UnicodeDecodeError).
DecoderRaises(decoder, value) == ApplyDecoder(decoder, value).kind = "raise"

\* ------------------------------------------------------------- byte buffers

\* A buffer (io.BytesIO) is the bytes head \o fill \o ... \o fill \o tail, with
\* fill repeated n times; the bytes are never changed by the decoder.
Buffer(head, fill, n, tail) == [head |-> head, fill |-> fill, n |-> n, tail |-> tail]

BufLen(b) == Len(b.head) + b.n * Len(b.fill) + Len(b.tail)

\* the byte at 0-based offset i < BufLen(b)
ByteAt(b, i) ==
    IF i < Len(b.head) THEN b.head[i + 1]
    ELSE IF i < Len(b.head) + b.n * Len(b.fill)
         THEN b.fill[((i - Len(b.head)) % Len(b.fill)) + 1]
         ELSE b.tail[i - Len(b.head) - b.n * Len(b.fill) + 1]

\* buff.read(k) with the cursor at p: at most k bytes, fewer at the end
Read(b, p, k) == [j \in 1..Min(k, BufLen(b) - p) |-> ByteAt(b, p + j - 1)]

\* the cursor after buff.read(k)
Advance(b, p, k) == Min(p + k, BufLen(b))

\* ------------------------------------------------------------------ inputs

ChecksumItems == { <<1, 2, 18, 52>>, <<1, 2, 255, 255>> }
VersionItems == { <<65, 1, 19>> }
TitleItems ==
    { <<3, 0>>, <<3, 1, 72>>, <<3, 2, 195, 169>>, <<3, 3, 226, 130, 172>>,
      <<3, 1, 195>>, <<3, 1, 255>>, <<3, 3, 237, 160, 128>> }
TimeItems ==
    { <<2, 8, 0, 0, 0, 0, 0, 0, 0, 0>>,
      <<2, 8, 0, 6, 10, 36, 24, 30, 64, 0>>,
      <<2, 8, 3, 132, 68, 12, 204, 115, 95, 255>>,
      <<2, 8, 3, 132, 68, 12, 204, 115, 96, 0>>,
      <<2, 8, 255, 255, 255, 255, 255, 255, 255, 255>> }
AnglePayloads == { <<0, 0, 0, 0>>, <<127, 255, 255, 255>>, <<128, 0, 0, 0>> }
AngleItems ==
    { <<t, 4>> \o p : t \in {82, 83, 86, 87}, p \in AnglePayloads }
      \cup { <<t, 4, 255, 255, 255, 255>> : t \in {84, 85, 88, 89} }
UnknownTagItems == { <<5>>, <<127>> }
LongFormTagItems == { <<128>>, <<255>> }
LongFormLengthItems == { <<3, 128>>, <<82, 255>> }
TruncatedItems == { <<1>>, <<1, 2, 0>>, <<82, 4, 0, 0>>, <<3, 2, 72>>, <<2, 8, 0, 0>> }
WrongLengthItems ==
    { <<1, 1, 7>>, <<65, 2, 0, 0>>, <<83, 2, 0, 0>>, <<2, 4, 0, 0, 0, 0>> }

Items ==
    ChecksumItems \cup VersionItems \cup TitleItems \cup TimeItems \cup AngleItems
      \cup UnknownTagItems \cup LongFormTagItems \cup LongFormLengthItems
      \cup TruncatedItems \cup WrongLengthItems

\* every concatenation of at most MaxItems items
ShortBuffers ==
    { Buffer(Flatten(s), <<>>, 0, <<>>) :
        s \in UNION { [1..k -> Items] : k \in 0..MaxItems } }

\* buffers long enough to meet the iteration bound
Fillers == { <<5>>, <<200>>, <<65, 1, 19>>, <<3, 130>> }
FillCounts == (max_iterations - FillSlack)..(max_iterations + FillSlack)
LongHeads == { <<>>, <<3, 1, 72>> }
LongTails == { <<>>, <<1, 2, 18, 52>>, <<1, 2, 18, 52, 65, 1, 19>>, <<82, 4, 0, 0>> }
LongBuffers ==
    { Buffer(h, f, n, t) :
        h \in LongHeads, f \in Fillers, n \in FillCounts, t \in LongTails }

Buffers == ShortBuffers \cup LongBuffers

\* ------------------------------------------------------- _decode_metadata

VARIABLES
    buff,            \* the io.BytesIO argument
    pos,             \* its cursor
    result,          \* the dict being built
    num_iterations,
    tag, size,       \* the locals of the loop body (-1: not yet assigned)
    payload,         \* what buff.read(size) returned last
    pc,              \* "loop", "returned" or "raised" ("idle": no decode call)
    exc,             \* the exception raised, "none" until then
    gimi_file,       \* get_gimi_metadata's argument: what the libraries read from it
    bands,           \* its bands dict
    heif_pos,        \* how many frames of heif_file the for loop has taken
    gimi_images,     \* its list of GimiImageMetadata
    apc,             \* "open", "loop", "returned" or "raised" ("idle": no call)
    aexc,            \* the exception raised, "none" until then
    table,           \* the module-level dict TAG_FORMATS, which every decode call reads
    calls,           \* the frames of the _decode_metadata calls running side by side
    vrts,            \* the strings get_vrt has returned, in call order
    qpc,             \* GimiCoverageProvider.query: "idle", "native", "reading" or "raised"
    qexc             \* the exception query raised, "none" until then

dvars == <<buff, pos, result, num_iterations, tag, size, payload, pc, exc>>
avars == <<gimi_file, bands, heif_pos, gimi_images, apc, aexc>>
xvars == <<table, calls, vrts, qpc, qexc>>
vars == <<dvars, avars, xvars>>

NoFile == [frames |-> <<>>, count |-> 0, supported |-> FALSE]

\* no call of get_gimi_metadata is in progress
AssembleIdle ==
    /\ gimi_file = NoFile
    /\ bands = <<>>
    /\ heif_pos = 0
    /\ gimi_images = <<>>
    /\ apc = "idle"
    /\ aexc = "none"

\* the Tag Table as the module defines it, no side-by-side calls, no get_vrt call yet
OthersIdle ==
    /\ table = TAG_FORMATS
    /\ calls = <<>>
    /\ vrts = <<>>
    /\ qpc = "idle"
    /\ qexc = "none"

\* no call of _decode_metadata is in progress
DecodeIdle ==
    /\ buff = Buffer(<<>>, <<>>, 0, <<>>)
    /\ pos = 0
    /\ result = <<>>
    /\ num_iterations = 0
    /\ tag = -1
    /\ size = -1
    /\ payload = <<>>
    /\ pc = "idle"
    /\ exc = "none"

\* lines 100-103
Init ==
    /\ buff \in Buffers
    /\ pos = 0
    /\ result = <<>>
    /\ num_iterations = 0
    /\ tag = -1
    /\ size = -1
    /\ payload = <<>>
    /\ pc = "loop"
    /\ exc = "none"
    /\ AssembleIdle
    /\ OthersIdle

LoopCond_OffByOne(res, n) == ("checksum" \notin DOMAIN res) /\ (n < max_iterations - 1)

\* a while condition that only counts iterations
LoopCond_CountOnly(res, n) == n < max_iterations

\* line 104: the while condition
LoopCond(res, n) == ("checksum" \notin DOMAIN res) /\ (n < max_iterations)

\* lines 107 and 116: BER short form is a value below 128
ShortForm(x) == x < 128

\* line 109: the KeyError test of TAG_FORMATS[tag]
KnownTag(t) == t \in DOMAIN TAG_FORMATS

\* lines 117-119: the format handed to struct.unpack
SizedFormat(format_) == format_

\* what one iteration does with the bytes at the cursor
HasTag(b, p) == p < BufLen(b)
TagAt(b, p) == ByteAt(b, p)
HasSize(b, p) == p + 1 < BufLen(b)
SizeAt(b, p) == ByteAt(b, p + 1)
PayloadAt(b, p) == Read(b, p + 2, SizeAt(b, p))

\* struct.unpack raises struct.error unless the bytes are exactly calcsize long
UnpackFails(format_, sz, bytes) == Len(bytes) # CalcSize(SizedFormat(format_), sz)

StepKind(b, p) ==
    IF ~HasTag(b, p) THEN "eof_tag"
    ELSE IF ~ShortForm(TagAt(b, p)) THEN "long_tag"
    ELSE IF ~KnownTag(TagAt(b, p)) THEN "unknown_tag"
    ELSE IF ~HasSize(b, p) THEN "eof_size"
    ELSE IF ~ShortForm(SizeAt(b, p)) THEN "long_size"
    ELSE LET e == TAG_FORMATS[TagAt(b, p)] IN
         IF UnpackFails(e.format_, SizeAt(b, p), PayloadAt(b, p)) THEN "unpack_error"
         ELSE IF DecoderRaises(e.decoder, Unpack(e.format_, PayloadAt(b, p)))
              THEN "decoder_error"
              ELSE "field"

Looping == pc = "loop" /\ LoopCond(result, num_iterations)

\* result[name] = v
Store(res, name, v) ==
    [k \in DOMAIN res \cup {name} |-> IF k = name THEN v ELSE res[k]]

\* line 105: buff.read(1) is empty at the end of the buffer and unpacking it raises
TagReadFails ==
    /\ Looping
    /\ StepKind(buff, pos) = "eof_tag"
    /\ pc' = "raised"
    /\ exc' = "struct.error"
    /\ UNCHANGED <<buff, pos, result, num_iterations, tag, size, payload, avars, xvars>>

\* a long-form tag whose iteration is not counted
LongFormTag_NotCounted ==
    /\ Looping
    /\ StepKind(buff, pos) = "long_tag"
    /\ tag' = TagAt(buff, pos)
    /\ pos' = Advance(buff, pos, 1)
    /\ UNCHANGED <<buff, result, num_iterations, size, payload, pc, exc, avars, xvars>>

\* a long-form tag after which the rest of the buffer is given up
LongFormTag_Abandons ==
    /\ Looping
    /\ StepKind(buff, pos) = "long_tag"
    /\ tag' = TagAt(buff, pos)
    /\ pos' = BufLen(buff)
    /\ num_iterations' = num_iterations + 1
    /\ UNCHANGED <<buff, result, size, payload, pc, exc, avars, xvars>>

\* lines 132-137: a tag of 128 or more is logged; only its byte is consumed
LongFormTag ==
    /\ Looping
    /\ StepKind(buff, pos) = "long_tag"
    /\ tag' = TagAt(buff, pos)
    /\ pos' = Advance(buff, pos, 1)
    /\ num_iterations' = num_iterations + 1
    /\ UNCHANGED <<buff, result, size, payload, pc, exc, avars, xvars>>

\* an unknown tag skipped together with a length byte
UnknownTag_SkipsLength ==
    /\ Looping
    /\ StepKind(buff, pos) = "unknown_tag"
    /\ tag' = TagAt(buff, pos)
    /\ pos' = Advance(buff, pos, 2)
    /\ num_iterations' = num_iterations + 1
    /\ UNCHANGED <<buff, result, size, payload, pc, exc, avars, xvars>>

\* an unknown tag skipped as a whole triplet: tag, length byte and payload
UnknownTag_SkipsTriplet ==
    /\ Looping
    /\ StepKind(buff, pos) = "unknown_tag"
    /\ tag' = TagAt(buff, pos)
    /\ pos' = IF HasSize(buff, pos) THEN Advance(buff, pos + 2, SizeAt(buff, pos))
                                    ELSE Advance(buff, pos, 1)
    /\ num_iterations' = num_iterations + 1
    /\ UNCHANGED <<buff, result, size, payload, pc, exc, avars, xvars>>

\* lines 110-111, 137: KeyError is caught; only the tag byte is consumed
UnknownTag ==
    /\ Looping
    /\ StepKind(buff, pos) = "unknown_tag"
    /\ tag' = TagAt(buff, pos)
    /\ pos' = Advance(buff, pos, 1)
    /\ num_iterations' = num_iterations + 1
    /\ UNCHANGED <<buff, result, size, payload, pc, exc, avars, xvars>>

\* line 114: the length byte is missing
SizeReadFails ==
    /\ Looping
    /\ StepKind(buff, pos) = "eof_size"
    /\ tag' = TagAt(buff, pos)
    /\ pos' = Advance(buff, pos, 1)
    /\ pc' = "raised"
    /\ exc' = "struct.error"
    /\ UNCHANGED <<buff, result, num_iterations, size, payload, avars, xvars>>

\* a long-form length read as BER: the low seven bits count further length bytes
LongFormLength_SkipsLengthBytes ==
    /\ Looping
    /\ StepKind(buff, pos) = "long_size"
    /\ tag' = TagAt(buff, pos)
    /\ size' = SizeAt(buff, pos)
    /\ pos' = Advance(buff, pos + 2, SizeAt(buff, pos) - 128)
    /\ num_iterations' = num_iterations + 1
    /\ UNCHANGED <<buff, result, payload, pc, exc, avars, xvars>>

\* a long-form length whose field is stored with the absent value
LongFormLength_StoresNone ==
    /\ Looping
    /\ StepKind(buff, pos) = "long_size"
    /\ tag' = TagAt(buff, pos)
    /\ size' = SizeAt(buff, pos)
    /\ pos' = Advance(buff, pos, 2)
    /\ result' = Store(result, TAG_FORMATS[TagAt(buff, pos)].name, None)
    /\ num_iterations' = num_iterations + 1
    /\ UNCHANGED <<buff, payload, pc, exc, avars, xvars>>

\* lines 127-131, 137: a length of 128 or more is logged; tag and length are consumed
LongFormLength ==
    /\ Looping
    /\ StepKind(buff, pos) = "long_size"
    /\ tag' = TagAt(buff, pos)
    /\ size' = SizeAt(buff, pos)
    /\ pos' = Advance(buff, pos, 2)
    /\ num_iterations' = num_iterations + 1
    /\ UNCHANGED <<buff, result, payload, pc, exc, avars, xvars>>

\* lines 120-121: the payload read is not as long as the format requires
UnpackRaises ==
    /\ Looping
    /\ StepKind(buff, pos) = "unpack_error"
    /\ tag' = TagAt(buff, pos)
    /\ size' = SizeAt(buff, pos)
    /\ payload' = PayloadAt(buff, pos)
    /\ pos' = Advance(buff, pos + 2, SizeAt(buff, pos))
    /\ pc' = "raised"
    /\ exc' = "struct.error"
    /\ UNCHANGED <<buff, result, num_iterations, avars, xvars>>

\* line 124: the decoder raises (UnicodeDecodeError of _decode_string)
DecoderFails ==
    /\ Looping
    /\ StepKind(buff, pos) = "decoder_error"
    /\ tag' = TagAt(buff, pos)
    /\ size' = SizeAt(buff, pos)
    /\ payload' = PayloadAt(buff, pos)
    /\ pos' = Advance(buff, pos + 2, SizeAt(buff, pos))
    /\ pc' = "raised"
    /\ exc' = ApplyDecoder(TAG_FORMATS[TagAt(buff, pos)].decoder,
                           Unpack(TAG_FORMATS[TagAt(buff, pos)].format_,
                                  PayloadAt(buff, pos))).v[1]
    /\ UNCHANGED <<buff, result, num_iterations, avars, xvars>>

\* lines 120-126, 137: the field is decoded and stored under its name
DecodeField ==
    /\ Looping
    /\ StepKind(buff, pos) = "field"
    /\ LET e == TAG_FORMATS[TagAt(buff, pos)] IN
       result' = Store(result, e.name,
                       ApplyDecoder(e.decoder, Unpack(e.format_, PayloadAt(buff, pos))))
    /\ tag' = TagAt(buff, pos)
    /\ size' = SizeAt(buff, pos)
    /\ payload' = PayloadAt(buff, pos)
    /\ pos' = Advance(buff, pos + 2, SizeAt(buff, pos))
    /\ num_iterations' = num_iterations + 1
    /\ UNCHANGED <<buff, pc, exc, avars, xvars>>

\* lines 139-142: the loop is left and the map returned, warning when it has no checksum
Return ==
    /\ pc = "loop"
    /\ ~LoopCond(result, num_iterations)
    /\ pc' = "returned"
    /\ UNCHANGED <<buff, pos, result, num_iterations, tag, size, payload, exc, avars, xvars>>

Next ==
    \/ TagReadFails
    \/ LongFormTag
    \/ UnknownTag
    \/ SizeReadFails
    \/ LongFormLength
    \/ UnpackRaises
    \/ DecoderFails
    \/ DecodeField
    \/ Return

Spec == Init /\ [][Next]_vars

\* ------------------------------------------- get_gimi_metadata (reader.py)

Abs(x) == IF x < 0 THEN -x ELSE x

RECURSIVE GCD(_, _)
GCD(a, b) == IF b = 0 THEN a ELSE GCD(b, a % b)

\* a float is modelled by the rational it rounds: <<numerator, denominator>>
\* in lowest terms with denominator > 0
Quotient(n, d) ==
    LET g == GCD(Abs(n), Abs(d))
        sgn == IF d < 0 THEN -1 ELSE 1
    IN  <<(sgn * n) \div g, (sgn * d) \div g>>

Float(n) == <<n, 1>>
FSub(x, y) == Quotient(x[1] * y[2] - y[1] * x[2], x[2] * y[2])
FDiv(x, k) == Quotient(x[1], x[2] * k)

\* klv_meta.get(key, default)
Get(klv_meta, key, default) == IF key \in DOMAIN klv_meta THEN klv_meta[key] ELSE default

\* the arguments taken as Affine(a, b, c, d, e, f)
from_gdal_AsConstructor(c, a, b, f, d, e) ==
    [a |-> c, b |-> a, c |-> b, d |-> f, e |-> d, f |-> e]

\* rasterio.Affine.from_gdal(c, a, b, f, d, e) is Affine(a, b, c, d, e, f):
\* c, f the origin, a, e the pixel sizes, b, d the rotations
from_gdal(c, a, b, f, d, e) ==
    [a |-> a, b |-> b, c |-> c, d |-> d, e |-> e, f |-> f]

\* shapely.geometry.box
box(minx, miny, maxx, maxy) == [minx |-> minx, miny |-> miny, maxx |-> maxx, maxy |-> maxy]

\* rasterio.control.GroundControlPoint; id is the uuid4 string it draws when
\* none is given
GroundControlPoint(row, col, x, y, id) ==
    [row |-> row, col |-> col, x |-> x, y |-> y, id |-> id]

GimiBandData(index, dtype, no_data_value, units) ==
    [index |-> index, dtype |-> dtype, no_data_value |-> no_data_value, units |-> units]

\* lines 73-74: the keys read with klv_meta[...], which raises KeyError
SubscriptedKeys ==
    { "pt3_east_bound_longitude", "pt1_west_bound_longitude",
      "pt3_south_bound_latitude", "pt1_north_bound_latitude" }

KeyErrorIn(klv_meta) == ~(SubscriptedKeys \subseteq DOMAIN klv_meta)

XResolution_ByHeight(klv_meta, width, height) ==
    FDiv(FSub(klv_meta["pt3_east_bound_longitude"],
              klv_meta["pt1_west_bound_longitude"]), height)

\* line 73
XResolution(klv_meta, width, height) ==
    FDiv(FSub(klv_meta["pt3_east_bound_longitude"],
              klv_meta["pt1_west_bound_longitude"]), width)

\* line 74
YResolution(klv_meta, width, height) ==
    FDiv(FSub(klv_meta["pt3_south_bound_latitude"],
              klv_meta["pt1_north_bound_latitude"]), height)

\* lines 77-84
AffineOf(klv_meta, x_resolution, y_resolution) ==
    from_gdal(klv_meta["pt1_west_bound_longitude"], x_resolution, Float(0),
              klv_meta["pt1_north_bound_latitude"], Float(0), y_resolution)

\* the corners listed row by row instead of around the rectangle
Gcps_RowByRow(klv_meta, width, height, ids) ==
    << GroundControlPoint(0, 0,
           Get(klv_meta, "pt1_west_bound_longitude", None),
           Get(klv_meta, "pt1_north_bound_latitude", None), ids[1]),
       GroundControlPoint(0, width,
           Get(klv_meta, "pt3_east_bound_longitude", None),
           Get(klv_meta, "pt1_north_bound_latitude", None), ids[2]),
       GroundControlPoint(height, 0,
           Get(klv_meta, "pt1_west_bound_longitude", None),
           Get(klv_meta, "pt3_south_bound_latitude", None), ids[3]),
       GroundControlPoint(height, width,
           Get(klv_meta, "pt3_east_bound_longitude", None),
           Get(klv_meta, "pt3_south_bound_latitude", None), ids[4]) >>

\* lines 94-119
Gcps(klv_meta, width, height, ids) ==
    << GroundControlPoint(0, 0,
           Get(klv_meta, "pt1_west_bound_longitude", None),
           Get(klv_meta, "pt1_north_bound_latitude", None), ids[1]),
       GroundControlPoint(0, width,
           Get(klv_meta, "pt3_east_bound_longitude", None),
           Get(klv_meta, "pt1_north_bound_latitude", None), ids[2]),
       GroundControlPoint(height, width,
           Get(klv_meta, "pt3_east_bound_longitude", None),
           Get(klv_meta, "pt3_south_bound_latitude", None), ids[3]),
       GroundControlPoint(height, 0,
           Get(klv_meta, "pt1_west_bound_longitude", None),
           Get(klv_meta, "pt3_south_bound_latitude", None), ids[4]) >>

\* lines 72-129: the record of one frame
GimiImageMetadata(klv_meta, width, height, bnds, ids) ==
    LET x_resolution == XResolution(klv_meta, width, height)
        y_resolution == YResolution(klv_meta, width, height)
    IN  [ affine |-> AffineOf(klv_meta, x_resolution, y_resolution),
          bands |-> bnds,
          bbox |-> box(Get(klv_meta, "pt1_west_bound_longitude", None),
                       Get(klv_meta, "pt1_north_bound_latitude", None),
                       Get(klv_meta, "pt3_east_bound_longitude", None),
                       Get(klv_meta, "pt3_south_bound_latitude", None)),
          begin_position |-> Get(klv_meta, "begin_position", None),
          crs |-> 4326,
          gcps |-> Gcps(klv_meta, width, height, ids),
          height |-> height,
          lower_right_lon |-> Get(klv_meta, "pt3_east_bound_longitude", None),
          lower_right_lat |-> Get(klv_meta, "pt3_south_bound_latitude", None),
          title |-> Get(klv_meta, "title", Value("str", <<>>)),
          upper_left_lon |-> Get(klv_meta, "pt1_west_bound_longitude", None),
          upper_left_lat |-> Get(klv_meta, "pt1_north_bound_latitude", None),
          width |-> width,
          x_resolution |-> x_resolution,
          y_resolution |-> y_resolution ]

\* ---- inputs: what rasterio and pillow_heif read from the file

Corners(lon1, lat1, lon3, lat3) ==
    [ pt1_west_bound_longitude |-> Float(lon1),
      pt1_north_bound_latitude |-> Float(lat1),
      pt3_east_bound_longitude |-> Float(lon3),
      pt3_south_bound_latitude |-> Float(lat3) ]

Restrict(f, keys) == [k \in keys |-> f[k]]

\* pt1 = (-10, 50), pt3 = (10, 40)
ScenarioMeta == Corners(-10, 50, 10, 40)

CompleteMetas ==
    { ScenarioMeta,
      Corners(-3, 7, 5, 1),
      ScenarioMeta @@ [title |-> Value("str", <<72, 105>>), begin_position |-> None],
      ScenarioMeta @@ [begin_position |-> Value("datetime", <<19675, 80000, 0>>),
                       checksum |-> Value("int", <<4660>>)] }

IncompleteMetas ==
    { Restrict(ScenarioMeta, ks) : ks \in (SUBSET SubscriptedKeys) \ {SubscriptedKeys} }

Frame(klv_meta, klv_exc, width, height) ==
    [klv_meta |-> klv_meta, klv_exc |-> klv_exc, width |-> width, height |-> height]

Frames ==
    { Frame(m, "none", sz[1], sz[2]) : m \in CompleteMetas, sz \in {<<1000, 800>>, <<3, 2>>} }
      \cup { Frame(m, "none", 1000, 800) : m \in IncompleteMetas }
      \cup { Frame(<<>>, "struct.error", 1000, 800) }

Files ==
    [ frames : UNION { [1..k -> Frames] : k \in 1..MaxFrames },
      count : 1..MaxBands,
      supported : BOOLEAN ]

\* the identifiers uuid4 may draw for the ground control points of one frame
Uuids == { "u1", "u2" }
GcpIds(u) == [k \in 1..4 |-> <<u, k>>]

InitAssemble ==
    /\ DecodeIdle
    /\ OthersIdle
    /\ gimi_file \in Files
    /\ bands = <<>>
    /\ heif_pos = 0
    /\ gimi_images = <<>>
    /\ apc = "open"
    /\ aexc = "none"

\* lines 52-65: one GimiBandData per band index of the raster
BandsOf(file) == [i \in 1..file.count |-> GimiBandData(i, "uint8", None, None)]

\* lines 52-68: the bands are read and the file is opened by pillow_heif
OpenFile ==
    /\ apc = "open"
    /\ gimi_file.supported
    /\ bands' = BandsOf(gimi_file)
    /\ apc' = "loop"
    /\ UNCHANGED <<gimi_file, heif_pos, gimi_images, aexc, dvars, xvars>>

\* lines 66-67
Unsupported ==
    /\ apc = "open"
    /\ ~gimi_file.supported
    /\ bands' = BandsOf(gimi_file)
    /\ apc' = "raised"
    /\ aexc' = "RuntimeError"
    /\ UNCHANGED <<gimi_file, heif_pos, gimi_images, dvars, xvars>>

InFrameLoop == apc = "loop" /\ heif_pos < Len(gimi_file.frames)

\* line 71: klv.get_metadata raises and nothing catches it
KlvRaises ==
    /\ InFrameLoop
    /\ gimi_file.frames[heif_pos + 1].klv_exc # "none"
    /\ heif_pos' = heif_pos + 1
    /\ apc' = "raised"
    /\ aexc' = gimi_file.frames[heif_pos + 1].klv_exc
    /\ UNCHANGED <<gimi_file, bands, gimi_images, dvars, xvars>>

\* a frame without its corner fields dropped by the loop
MissingField_Skipped ==
    /\ InFrameLoop
    /\ gimi_file.frames[heif_pos + 1].klv_exc = "none"
    /\ KeyErrorIn(gimi_file.frames[heif_pos + 1].klv_meta)
    /\ heif_pos' = heif_pos + 1
    /\ UNCHANGED <<gimi_file, bands, gimi_images, apc, aexc, dvars, xvars>>

\* lines 73-74: klv_meta[...] raises KeyError and nothing catches it
MissingField ==
    /\ InFrameLoop
    /\ gimi_file.frames[heif_pos + 1].klv_exc = "none"
    /\ KeyErrorIn(gimi_file.frames[heif_pos + 1].klv_meta)
    /\ heif_pos' = heif_pos + 1
    /\ apc' = "raised"
    /\ aexc' = "KeyError"
    /\ UNCHANGED <<gimi_file, bands, gimi_images, dvars, xvars>>

\* lines 70-130: one frame's record is appended
AssembleFrame ==
    /\ InFrameLoop
    /\ gimi_file.frames[heif_pos + 1].klv_exc = "none"
    /\ ~KeyErrorIn(gimi_file.frames[heif_pos + 1].klv_meta)
    /\ \E u \in Uuids :
          LET f == gimi_file.frames[heif_pos + 1] IN
          gimi_images' = Append(gimi_images,
              GimiImageMetadata(f.klv_meta, f.width, f.height, bands, GcpIds(u)))
    /\ heif_pos' = heif_pos + 1
    /\ UNCHANGED <<gimi_file, bands, apc, aexc, dvars, xvars>>

\* lines 131-134
ReturnMetadata ==
    /\ apc = "loop"
    /\ heif_pos = Len(gimi_file.frames)
    /\ apc' = "returned"
    /\ UNCHANGED <<gimi_file, bands, heif_pos, gimi_images, aexc, dvars, xvars>>

NextAssemble ==
    \/ OpenFile
    \/ Unsupported
    \/ KlvRaises
    \/ MissingField
    \/ AssembleFrame
    \/ ReturnMetadata

SpecAssemble == InitAssemble /\ [][NextAssemble]_vars

\* ------------------------------------------------ claims about the decoder

\* Is the byte sequence a run of whole (tag, length, value) triplets, each of
\* a known tag, a short-form length that its wire format accepts, and a
\* payload its transform decodes?
RECURSIVE WellFormedBytes(_)
WellFormedBytes(s) ==
    \/ s = <<>>
    \/ /\ Len(s) >= 2
       /\ s[1] < 128 /\ s[1] \in DOMAIN TAG_FORMATS
       /\ s[2] < 128
       /\ Len(s) >= 2 + s[2]
       /\ LET e == TAG_FORMATS[s[1]]
              v == SubSeq(s, 3, 2 + s[2])
          IN  /\ s[2] = CalcSize(e.format_, s[2])
              /\ (e.format_ = "s" => Utf8Decode(v) # Invalid)
       /\ WellFormedBytes(SubSeq(s, 3 + s[2], Len(s)))

RECURSIVE TripletCount(_)
TripletCount(s) ==
    IF s = <<>> THEN 0 ELSE 1 + TripletCount(SubSeq(s, 3 + s[2], Len(s)))

\* the 1-based index of the first checksum triplet of well-formed bytes, 0 if none
RECURSIVE FirstChecksum(_)
FirstChecksum(s) ==
    IF s = <<>> THEN 0
    ELSE IF s[1] = 1 THEN 1
    ELSE LET r == FirstChecksum(SubSeq(s, 3 + s[2], Len(s))) IN
         IF r = 0 THEN 0 ELSE r + 1

WellFormedBuffer(b) ==
    /\ WellFormedBytes(b.head)
    /\ b.n > 0 => WellFormedBytes(b.fill)
    /\ WellFormedBytes(b.tail)

ChecksumIndex(b) ==
    LET h == FirstChecksum(b.head)
        f == IF b.n > 0 THEN FirstChecksum(b.fill) ELSE 0
        t == FirstChecksum(b.tail)
        nf == IF b.n > 0 THEN b.n * TripletCount(b.fill) ELSE 0
    IN  IF h > 0 THEN h
        ELSE IF f > 0 THEN TripletCount(b.head) + f
        ELSE IF t > 0 THEN TripletCount(b.head) + nf + t
        ELSE 0

\* C1: on a buffer of well-formed triplets of known tags whose first checksum
\* triplet is among the first max_iterations triplets, the decode never raises,
\* every iteration it enters decodes a field, it takes no more iterations than
\* the index of that triplet, and it returns a map with the key "checksum".
C1_ChecksumFound ==
    (WellFormedBuffer(buff) /\ ChecksumIndex(buff) \in 1..max_iterations) =>
        /\ pc # "raised"
        /\ num_iterations <= ChecksumIndex(buff)
        /\ Looping => StepKind(buff, pos) = "field"
        /\ pc = "returned" => "checksum" \in DOMAIN result

\* the checksum triplet is the max_iterations-th triplet and is returned
C1_Witness ==
    /\ WellFormedBuffer(buff)
    /\ ChecksumIndex(buff) = max_iterations
    /\ pc = "returned"
    /\ "checksum" \in DOMAIN result

\* C2: on a buffer of well-formed fields with no checksum field, the decode
\* does not raise (it returns the fields decoded so far).
C2_NoChecksumIsNotFatal ==
    (WellFormedBuffer(buff) /\ ChecksumIndex(buff) = 0) => pc # "raised"

\* the fields at the cursor: a known tag, a short-form length and fewer bytes
\* left than the length declares
ShortPayloadAhead ==
    /\ Looping
    /\ pos + 1 < BufLen(buff)
    /\ ByteAt(buff, pos) \in DOMAIN TAG_FORMATS
    /\ ByteAt(buff, pos + 1) < 128
    /\ BufLen(buff) - (pos + 2) < ByteAt(buff, pos + 1)

\* C3: a known tag whose short-form length exceeds the bytes left makes the
\* iteration raise, with the cursor not past the end of the buffer and no
\* value stored for the field.
C3_ShortPayloadRaises ==
    [][ ShortPayloadAhead =>
          /\ pc' = "raised"
          /\ result' = result
          /\ pos' <= BufLen(buff)
      ]_vars

\* the buffer is one unknown short-form tag byte and a checksum triplet
UnknownThenChecksum(b) ==
    /\ b.n = 0 /\ b.tail = <<>>
    /\ Len(b.head) = 5
    /\ b.head[1] < 128 /\ b.head[1] \notin DOMAIN TAG_FORMATS
    /\ b.head[2] = 1 /\ b.head[3] = 2

\* C4: on an unknown tag byte followed by a checksum triplet the decode does
\* not raise and returns a map whose only key is "checksum", holding the
\* big-endian value of the two payload bytes.
C4_UnknownThenChecksum ==
    UnknownThenChecksum(buff) =>
        /\ pc # "raised"
        /\ Looping => StepKind(buff, pos) \in {"unknown_tag", "field"}
        /\ pc = "returned" =>
              /\ DOMAIN result = {"checksum"}
              /\ result["checksum"] = Value("int", <<256 * buff.head[4] + buff.head[5]>>)

C4_Witness ==
    /\ UnknownThenChecksum(buff)
    /\ pc = "returned"
    /\ DOMAIN result = {"checksum"}

\* big-endian digit sequences of equal length, compared as numbers
RECURSIVE DigitsGreater(_, _)
DigitsGreater(a, b) ==
    /\ a # <<>>
    /\ \/ Head(a) > Head(b)
       \/ Head(a) = Head(b) /\ DigitsGreater(Tail(a), Tail(b))

\* 253402300799999999, the microseconds from the epoch to datetime.max
MaxMicroseconds == <<3, 132, 68, 12, 204, 115, 95, 255>>

\* the field at the cursor is a precision time stamp past datetime.max
OverflowingTimestampAhead ==
    /\ Looping
    /\ pos + 1 < BufLen(buff)
    /\ ByteAt(buff, pos) = 2
    /\ ByteAt(buff, pos + 1) = 8
    /\ BufLen(buff) - (pos + 2) >= 8
    /\ DigitsGreater([j \in 1..8 |-> ByteAt(buff, pos + 1 + j)], MaxMicroseconds)

\* C9 as claimed: the overflowing field is omitted, the map has no
\* "begin_position" key.
C9_OverflowOmitsField ==
    [][ OverflowingTimestampAhead =>
          (pc' = "loop" /\ "begin_position" \notin DOMAIN result') ]_vars

\* C9 as amended: the decode does not raise, and the field is stored with the
\* absent value: the map holds "begin_position" mapped to None.
C9_OverflowStoresNone ==
    [][ OverflowingTimestampAhead =>
          /\ pc' = "loop"
          /\ exc' = "none"
          /\ "begin_position" \in DOMAIN result'
          /\ result'["begin_position"] = None
          /\ \A k \in DOMAIN result : k # "begin_position" => result'[k] = result[k]
      ]_vars

\* a returned map that holds the key with the absent value
C9_Witness ==
    /\ pc = "returned"
    /\ "begin_position" \in DOMAIN result
    /\ result["begin_position"] = None
    /\ "checksum" \in DOMAIN result

\* the field at the cursor is a title whose whole payload is there
TitleAhead ==
    /\ Looping
    /\ pos + 1 < BufLen(buff)
    /\ ByteAt(buff, pos) = 3
    /\ ByteAt(buff, pos + 1) < 128
    /\ BufLen(buff) - (pos + 2) >= ByteAt(buff, pos + 1)

TitleBytesAhead == [j \in 1..ByteAt(buff, pos + 1) |-> ByteAt(buff, pos + 1 + j)]

\* C10: a title payload that is not valid UTF-8 makes the decode raise
\* UnicodeDecodeError: nothing is returned and the map is left as it was.
C10_BadUtf8Raises ==
    [][ (TitleAhead /\ Utf8Decode(TitleBytesAhead) = Invalid) =>
          /\ pc' = "raised"
          /\ exc' = "UnicodeDecodeError"
          /\ result' = result
      ]_vars

C10_Witness ==
    /\ pc = "raised"
    /\ exc = "UnicodeDecodeError"
    /\ tag = 3
    /\ Len(payload) = size
    /\ Utf8Decode(payload) = Invalid
    /\ "title" \notin DOMAIN result

\* ---------------------------------------------- claims about the assembler

\* the four georeferencing fields the claims call required
RequiredFields ==
    { "pt1_west_bound_longitude", "pt1_north_bound_latitude",
      "pt3_east_bound_longitude", "pt3_south_bound_latitude" }

LacksRequired(frame) ==
    frame.klv_exc = "none" /\ \E k \in RequiredFields : k \notin DOMAIN frame.klv_meta

\* C5: a frame whose field map lacks a required field gets no record and
\* makes get_gimi_metadata raise KeyError when the loop reaches it (the call
\* never returns), and every record produced holds the four values of a map
\* that has them all, never a default.
C5_MissingFieldRaises ==
    /\ \A k \in 1..Len(gimi_file.frames) :
          LacksRequired(gimi_file.frames[k]) =>
              /\ Len(gimi_images) < k
              /\ apc # "returned"
              /\ heif_pos >= k => (apc = "raised" /\ aexc = "KeyError")
    /\ \A j \in 1..Len(gimi_images) :
          LET m == gimi_file.frames[j].klv_meta
              r == gimi_images[j]
          IN  /\ RequiredFields \subseteq DOMAIN m
              /\ r.upper_left_lon = m["pt1_west_bound_longitude"]
              /\ r.upper_left_lat = m["pt1_north_bound_latitude"]
              /\ r.lower_right_lon = m["pt3_east_bound_longitude"]
              /\ r.lower_right_lat = m["pt3_south_bound_latitude"]

\* a second frame lacking exactly one required field has raised KeyError
\* after the first frame's record was built
C5_Witness ==
    /\ apc = "raised"
    /\ aexc = "KeyError"
    /\ heif_pos = 2
    /\ Len(gimi_images) = 1
    /\ Cardinality(RequiredFields \ DOMAIN gimi_file.frames[2].klv_meta) = 1

IsScenario(frame) ==
    /\ frame.klv_exc = "none"
    /\ RequiredFields \subseteq DOMAIN frame.klv_meta
    /\ frame.klv_meta["pt1_west_bound_longitude"] = Float(-10)
    /\ frame.klv_meta["pt1_north_bound_latitude"] = Float(50)
    /\ frame.klv_meta["pt3_east_bound_longitude"] = Float(10)
    /\ frame.klv_meta["pt3_south_bound_latitude"] = Float(40)
    /\ frame.width = 1000
    /\ frame.height = 800

\* C6: in every record the corners are (pt1 lon, pt1 lat) and (pt3 lon,
\* pt3 lat) of the frame's map, x_resolution is (lower_right_lon -
\* upper_left_lon) / width and y_resolution is (lower_right_lat -
\* upper_left_lat) / height; the scenario gives 0.02 and -0.0125.
C6_Resolution ==
    \A j \in 1..Len(gimi_images) :
        LET f == gimi_file.frames[j]
            r == gimi_images[j]
        IN  /\ r.width = f.width
            /\ r.height = f.height
            /\ r.upper_left_lon = f.klv_meta["pt1_west_bound_longitude"]
            /\ r.upper_left_lat = f.klv_meta["pt1_north_bound_latitude"]
            /\ r.lower_right_lon = f.klv_meta["pt3_east_bound_longitude"]
            /\ r.lower_right_lat = f.klv_meta["pt3_south_bound_latitude"]
            /\ r.x_resolution = FDiv(FSub(r.lower_right_lon, r.upper_left_lon), r.width)
            /\ r.y_resolution = FDiv(FSub(r.lower_right_lat, r.upper_left_lat), r.height)
            /\ IsScenario(f) =>
                  /\ r.x_resolution = Quotient(2, 100)
                  /\ r.y_resolution = Quotient(-125, 10000)

\* the scenario's record, in a call that returned
C6_Witness ==
    /\ apc = "returned"
    /\ \E j \in 1..Len(gimi_images) :
          /\ IsScenario(gimi_file.frames[j])
          /\ gimi_images[j].x_resolution = <<1, 50>>
          /\ gimi_images[j].y_resolution = <<-1, 80>>

\* C7: in every record the affine transform has origin (pt1 lon, pt1 lat),
\* pixel width x_resolution, pixel height y_resolution and both rotation
\* terms zero.
C7_Affine ==
    \A j \in 1..Len(gimi_images) :
        LET m == gimi_file.frames[j].klv_meta
            r == gimi_images[j]
        IN  /\ r.affine.c = m["pt1_west_bound_longitude"]
            /\ r.affine.a = r.x_resolution
            /\ r.affine.b = Float(0)
            /\ r.affine.f = m["pt1_north_bound_latitude"]
            /\ r.affine.d = Float(0)
            /\ r.affine.e = r.y_resolution

\* the scenario's transform: origin (-10, 50), pixel sizes 0.02 and -0.0125
C7_Witness ==
    \E j \in 1..Len(gimi_images) :
        /\ IsScenario(gimi_file.frames[j])
        /\ gimi_images[j].affine =
              [a |-> <<1, 50>>, b |-> <<0, 1>>, c |-> <<-10, 1>>,
               d |-> <<0, 1>>, e |-> <<-1, 80>>, f |-> <<50, 1>>]

\* pixel (col, row) -> geographic (x, y) of a ground control point
GcpMapping(g) == <<g.col, g.row, g.x, g.y>>

\* C8: every record carries exactly 4 ground control points, (0,0) -> (pt1
\* lon, pt1 lat), (width,0) -> (pt3 lon, pt1 lat), (width,height) -> (pt3 lon,
\* pt3 lat), (0,height) -> (pt1 lon, pt3 lat), in this order; in the scenario
\* (0,0) -> (-10, 50) and (1000,800) -> (10, 40).
C8_GroundControlPoints ==
    \A j \in 1..Len(gimi_images) :
        LET f == gimi_file.frames[j]
            m == f.klv_meta
            g == gimi_images[j].gcps
        IN  /\ Len(g) = 4
            /\ GcpMapping(g[1]) = <<0, 0, m["pt1_west_bound_longitude"],
                                    m["pt1_north_bound_latitude"]>>
            /\ GcpMapping(g[2]) = <<f.width, 0, m["pt3_east_bound_longitude"],
                                    m["pt1_north_bound_latitude"]>>
            /\ GcpMapping(g[3]) = <<f.width, f.height, m["pt3_east_bound_longitude"],
                                    m["pt3_south_bound_latitude"]>>
            /\ GcpMapping(g[4]) = <<0, f.height, m["pt1_west_bound_longitude"],
                                    m["pt3_south_bound_latitude"]>>
            /\ IsScenario(f) =>
                  /\ GcpMapping(g[1]) = <<0, 0, Float(-10), Float(50)>>
                  /\ GcpMapping(g[3]) = <<1000, 800, Float(10), Float(40)>>

C8_Witness ==
    \E j \in 1..Len(gimi_images) :
        /\ IsScenario(gimi_file.frames[j])
        /\ Len(gimi_images[j].gcps) = 4
        /\ GcpMapping(gimi_images[j].gcps[1]) = <<0, 0, <<-10, 1>>, <<50, 1>>>>
        /\ GcpMapping(gimi_images[j].gcps[3]) = <<1000, 800, <<10, 1>>, <<40, 1>>>>

\* ------------------------------------------------------------ the loop bound

\* C15: the counter never passes max_iterations; every iteration that stays in
\* the loop, whichever branch it takes (long-form tag, unknown tag, long-form
\* length, decoded field), adds exactly one to it; a step that leaves the loop
\* (return or raise) leaves it alone; and at max_iterations the loop is left.
C15_BoundedIterations ==
    [][ /\ num_iterations' <= max_iterations
        /\ (pc = "loop" /\ pc' = "loop") =>
               /\ num_iterations < max_iterations
               /\ num_iterations' = num_iterations + 1
               /\ StepKind(buff, pos) \in {"long_tag", "unknown_tag", "long_size", "field"}
        /\ (pc = "loop" /\ pc' # "loop") =>
               /\ pc' \in {"returned", "raised"}
               /\ num_iterations' = num_iterations
        /\ (pc = "loop" /\ num_iterations = max_iterations) => pc' = "returned"
        /\ pc # "loop" => UNCHANGED dvars ]_vars

C15_Witness ==
    /\ pc = "returned"
    /\ num_iterations = max_iterations
    /\ "checksum" \notin DOMAIN result
    /\ pos < BufLen(buff)

\* ------------------------------------------------------ skipped iterations

\* the last iteration met an unknown short-form tag in the byte before the cursor
AfterUnknownTag ==
    /\ pos >= 1
    /\ tag = ByteAt(buff, pos - 1)
    /\ ShortForm(tag)
    /\ ~KnownTag(tag)

\* C18: an iteration that meets an unknown tag consumes exactly one byte (the
\* tag id) and leaves the map unchanged, and the iteration after it reads the
\* byte that follows as a tag id.
C18_UnknownTagConsumesOneByte ==
    [][ /\ (Looping /\ HasTag(buff, pos) /\ ShortForm(TagAt(buff, pos))
               /\ ~KnownTag(TagAt(buff, pos))) =>
               /\ pos' = pos + 1
               /\ result' = result
               /\ pc' = "loop"
               /\ tag' = TagAt(buff, pos)
        /\ (Looping /\ AfterUnknownTag /\ HasTag(buff, pos)) =>
               /\ tag' = ByteAt(buff, pos)
               /\ pos' >= pos + 1 ]_vars

C18_Witness ==
    /\ num_iterations = 2
    /\ ShortForm(ByteAt(buff, 0))
    /\ ~KnownTag(ByteAt(buff, 0))
    /\ tag = ByteAt(buff, 1)
    /\ KnownTag(tag)
    /\ DOMAIN result = {TAG_FORMATS[tag].name}

\* the last iteration met a known tag whose length byte is 128 or more
AfterLongFormLength ==
    /\ pos >= 2
    /\ tag = ByteAt(buff, pos - 2)
    /\ KnownTag(tag)
    /\ size = ByteAt(buff, pos - 1)
    /\ ~ShortForm(size)

\* C19: a known tag whose length byte is 128 or more does not end the decode:
\* nothing is stored, the cursor moves by exactly two bytes (tag and length),
\* and the next iteration reads the byte after the length byte as a tag id.
C19_LongFormLengthSkipsTwoBytes ==
    [][ /\ (Looping /\ HasSize(buff, pos) /\ KnownTag(TagAt(buff, pos))
               /\ ~ShortForm(SizeAt(buff, pos))) =>
               /\ pos' = pos + 2
               /\ result' = result
               /\ pc' = "loop"
               /\ exc' = "none"
        /\ (Looping /\ AfterLongFormLength /\ HasTag(buff, pos)) =>
               /\ tag' = ByteAt(buff, pos)
               /\ pos' >= pos + 1 ]_vars

C19_Witness ==
    /\ num_iterations = 2
    /\ KnownTag(ByteAt(buff, 0))
    /\ ~ShortForm(ByteAt(buff, 1))
    /\ tag = ByteAt(buff, 2)
    /\ KnownTag(tag)
    /\ DOMAIN result = {TAG_FORMATS[tag].name}

\* ------------------------------------------------------ the checksum stop

\* the cursor is just behind the two bytes whose value the map holds as checksum
CursorAfterChecksum ==
    /\ pos >= 4
    /\ ByteAt(buff, pos - 4) = 1
    /\ result["checksum"] =
           Value("int", <<256 * ByteAt(buff, pos - 2) + ByteAt(buff, pos - 1)>>)

\* C20: once the map holds a checksum the loop is left: no byte is read any
\* more, the cursor stays just behind the 2-byte checksum value, the map is
\* returned as it is, and so no field behind that checksum ever enters it.
C20_StopsAtChecksum ==
    [][ /\ "checksum" \in DOMAIN result' => CursorAfterChecksum'
        /\ "checksum" \in DOMAIN result =>
               /\ pc = "loop" => pc' = "returned"
               /\ pos' = pos
               /\ result' = result
               /\ num_iterations' = num_iterations
               /\ exc' = "none" ]_vars

C20_Witness ==
    /\ pc = "returned"
    /\ "checksum" \in DOMAIN result
    /\ CursorAfterChecksum
    /\ pos + 3 <= BufLen(buff)
    /\ KnownTag(ByteAt(buff, pos))
    /\ TAG_FORMATS[ByteAt(buff, pos)].name \notin DOMAIN result

\* --------------------------------------------------- timestamp round trip

\* instants as (days, seconds, microseconds) since 1970-01-01T00:00:00Z
MaxStampDays == 100000000
StampDays == {0, 1, 365, 19675, MaxDays - 1, MaxDays, MaxDays + 1, MaxDays + 2, MaxStampDays}
StampSeconds == {0, 1, 43200, 86399}
StampMicroseconds == {0, 1, 999999}
Instants == StampDays \X StampSeconds \X StampMicroseconds

\* the base-256 digits of n, most significant first
RECURSIVE ToDigits(_)
ToDigits(n) == IF n = 0 THEN <<>> ELSE Append(ToDigits(n \div 256), n % 256)

\* digits * k + carry, for k <= 1000000
RECURSIVE MulAdd(_, _, _)
MulAdd(digits, k, carry) ==
    IF digits = <<>> THEN ToDigits(carry)
    ELSE LET cur == digits[Len(digits)] * k + carry IN
         Append(MulAdd(SubSeq(digits, 1, Len(digits) - 1), k, cur \div 256), cur % 256)

\* struct.pack(">Q", v): the digits left-padded to 8 bytes
Pad8(digits) == [i \in 1..(8 - Len(digits)) |-> 0] \o digits

\* the precision time stamp of an instant: its whole microseconds since the epoch
EncodeMicroseconds(t) ==
    Pad8(MulAdd(MulAdd(ToDigits(t[1]), 86400, t[2]), 1000000, t[3]))

\* a precision time stamp triplet followed by a checksum triplet
TimestampBuffers ==
    { Buffer(<<2, 8>> \o m \o <<1, 2, 18, 52>>, <<>>, 0, <<>>) :
        m \in { EncodeMicroseconds(t) : t \in Instants }
              \cup { <<255, 255, 255, 255, 255, 255, 255, 255>> } }

InitTimestamp ==
    /\ buff \in TimestampBuffers
    /\ pos = 0
    /\ result = <<>>
    /\ num_iterations = 0
    /\ tag = -1
    /\ size = -1
    /\ payload = <<>>
    /\ pc = "loop"
    /\ exc = "none"
    /\ AssembleIdle
    /\ OthersIdle

NextTimestamp ==
    \/ DecodeField
    \/ Return

SpecTimestamp == InitTimestamp /\ [][NextTimestamp]_vars

\* the 8 bytes of the time stamp the buffer carries
StampBytes == Read(buff, 2, 8)

\* a normalised instant no later than datetime.max
RepresentableInstant(t) ==
    /\ t[1] \in 0..MaxDays
    /\ t[2] \in 0..86399
    /\ t[3] \in 0..999999

\* C16: a time stamp m within the representable range decodes to exactly the
\* instant whose microseconds since the epoch are m, and every m past the
\* range decodes to the absent value.
C16_TimestampRoundTrip ==
    "begin_position" \in DOMAIN result =>
        IF DigitsGreater(StampBytes, MaxMicroseconds)
        THEN result["begin_position"] = None
        ELSE /\ result["begin_position"].kind = "datetime"
             /\ RepresentableInstant(result["begin_position"].v)
             /\ EncodeMicroseconds(result["begin_position"].v) = StampBytes
             /\ \A t \in Instants :
                    EncodeMicroseconds(t) = StampBytes =>
                        result["begin_position"] = Value("datetime", t)

C16_Witness ==
    /\ pc = "returned"
    /\ StampBytes = EncodeMicroseconds(<<MaxDays, 86399, 999999>>)
    /\ result["begin_position"] = Value("datetime", <<MaxDays, 86399, 999999>>)

\* ------------------------------------- _decode_metadata calls side by side

\* Each call has its own frame: its buffer and cursor, its map, its counter and
\* the locals name, format_, decoder (entry) it unpacked from the Tag Table.
\* The Tag Table is the one object the calls have in common.  A call takes two
\* steps per iteration: up to the table lookup of line 109, and from the
\* length byte of line 114 to the end of the iteration; another call may run
\* between the two.

NoEntry == Entry("", "", "None")

\* lines 100-103: the frame of a call that has just started on buffer b
CallInit(b) ==
    [buff |-> b, pos |-> 0, result |-> <<>>, num_iterations |-> 0,
     tag |-> -1, entry |-> NoEntry, pc |-> "loop", exc |-> "none"]

\* lines 104-113 and 132-142: the while test, the tag byte and the table lookup
LookupStep(st, tbl) ==
    IF ~LoopCond(st.result, st.num_iterations) THEN [st EXCEPT !.pc = "returned"]
    ELSE IF ~HasTag(st.buff, st.pos)
         THEN [st EXCEPT !.pc = "raised", !.exc = "struct.error"]
    ELSE LET t == TagAt(st.buff, st.pos) IN
         IF ~ShortForm(t) \/ t \notin DOMAIN tbl
         THEN [st EXCEPT !.tag = t, !.pos = @ + 1, !.num_iterations = @ + 1]
         ELSE [st EXCEPT !.tag = t, !.pos = @ + 1, !.entry = tbl[t], !.pc = "found"]

\* lines 117-119: format_ = f"{size}s" when format_ == "s", rebinding the local
RewrittenFormat(format_, sz) == IF format_ = "s" THEN ToString(sz) \o "s" ELSE format_

\* struct.calcsize(">" + format_); a bare "s" is one char
FormatSize(format_) ==
    IF format_ \in {"B", "H", "l", "L", "Q"} THEN CalcSize(format_, 0)
    ELSE IF format_ = "s" THEN 1
    ELSE CHOOSE k \in 0..127 : format_ = ToString(k) \o "s"

\* the format character of a format, its repeat count dropped
FormatCode(format_) == IF format_ \in {"B", "H", "l", "L", "Q"} THEN format_ ELSE "s"

\* lines 114-131 and 137: the length byte, the payload, the decoder and the store;
\* the cursor is behind the tag byte
FieldStep(st) ==
    IF ~HasTag(st.buff, st.pos)
    THEN [st EXCEPT !.pc = "raised", !.exc = "struct.error"]
    ELSE LET sz == ByteAt(st.buff, st.pos) IN
         IF ~ShortForm(sz)
         THEN [st EXCEPT !.pos = @ + 1, !.num_iterations = @ + 1, !.pc = "loop"]
         ELSE LET format_ == RewrittenFormat(st.entry.format_, sz)
                  bytes == Read(st.buff, st.pos + 1, sz)
                  after == Advance(st.buff, st.pos + 1, sz)
              IN  IF Len(bytes) # FormatSize(format_)
                  THEN [st EXCEPT !.pos = after, !.pc = "raised", !.exc = "struct.error"]
                  ELSE LET v == ApplyDecoder(st.entry.decoder,
                                             Unpack(FormatCode(format_), bytes))
                       IN  IF v.kind = "raise"
                           THEN [st EXCEPT !.pos = after, !.pc = "raised", !.exc = v.v[1]]
                           ELSE [st EXCEPT !.pos = after,
                                           !.result = Store(st.result, st.entry.name, v),
                                           !.num_iterations = @ + 1,
                                           !.pc = "loop"]

\* the rewritten format stored back into the shared table entry
TableAfter_WriteBack(tbl, st) ==
    IF HasTag(st.buff, st.pos) /\ ShortForm(ByteAt(st.buff, st.pos))
    THEN [tbl EXCEPT ![st.tag].format_ =
              RewrittenFormat(st.entry.format_, ByteAt(st.buff, st.pos))]
    ELSE tbl

\* lines 114-131: what an iteration leaves in TAG_FORMATS; no statement assigns to it
TableAfter(tbl, st) == tbl

\* the buffers the side-by-side calls are given
TwoBuffers ==
    { Buffer(h, <<>>, 0, <<>>) :
        h \in { <<>>,
                <<3, 1, 72, 1, 2, 18, 52>>,
                <<3, 2, 195, 169, 1, 2, 18, 52>>,
                <<3, 0, 3, 1, 72>>,
                <<3, 1, 255>>,
                <<5, 65, 1, 19, 1, 2, 0, 1>>,
                <<128, 3, 130, 1, 2, 18, 52>>,
                <<82, 4, 0, 0, 0, 0, 3, 3, 226, 130, 172>>,
                <<2, 8, 0, 6, 10, 36, 24, 30, 64, 0, 1, 3, 1, 72>> } }

CallIds == {1, 2}

InitTwo ==
    /\ DecodeIdle
    /\ AssembleIdle
    /\ table = TAG_FORMATS
    /\ calls \in [CallIds -> { CallInit(b) : b \in TwoBuffers }]
    /\ vrts = <<>>
    /\ qpc = "idle"
    /\ qexc = "none"

\* call c runs up to its table lookup
Lookup(c) ==
    /\ calls[c].pc = "loop"
    /\ calls' = [calls EXCEPT ![c] = LookupStep(calls[c], table)]
    /\ UNCHANGED <<table, vrts, qpc, qexc, dvars, avars>>

\* call c finishes the iteration of the entry it looked up
Field(c) ==
    /\ calls[c].pc = "found"
    /\ calls' = [calls EXCEPT ![c] = FieldStep(calls[c])]
    /\ table' = TableAfter(table, calls[c])
    /\ UNCHANGED <<vrts, qpc, qexc, dvars, avars>>

NextTwo == \E c \in CallIds : Lookup(c) \/ Field(c)

SpecTwo == InitTwo /\ [][NextTwo]_vars

\* one whole iteration of a call that runs alone on the table as the module defines it
IterateOnce(st) ==
    LET looked == LookupStep(st, TAG_FORMATS) IN
    IF looked.pc = "found" THEN FieldStep(looked) ELSE looked

\* the call after k more iterations, or as it ended before that
RECURSIVE Iterate(_, _)
Iterate(st, k) ==
    IF k = 0 \/ st.pc \in {"returned", "raised"} THEN st
    ELSE Iterate(IterateOnce(st), k - 1)

\* what the call on buffer b comes to when nothing else runs
RunAlone(b) == Iterate(CallInit(b), max_iterations + 1)

\* what a caller sees of a finished call: the map returned or the error raised
Outcome(st) == [pc |-> st.pc, exc |-> st.exc, result |-> st.result]

\* C14: however the steps of two calls on their own buffers interleave, the
\* Tag Table stays as the module defines it (the sized string format is only
\* a local of the call), and each call ends with the map, or the error, that
\* it ends with when it runs alone.
C14_CallsIndependent ==
    /\ table = TAG_FORMATS
    /\ \A c \in CallIds :
           calls[c].pc \in {"returned", "raised"} =>
               Outcome(calls[c]) = Outcome(RunAlone(calls[c].buff))

C14_Witness ==
    /\ calls[1].pc = "found"
    /\ calls[1].entry.name = "title"
    /\ ByteAt(calls[1].buff, calls[1].pos) = 2
    /\ calls[2].pc = "returned"
    /\ "title" \in DOMAIN calls[2].result
    /\ ByteAt(calls[2].buff, 0) = 3
    /\ ByteAt(calls[2].buff, 1) = 1

\* ------------------------------------------------------- long-form tags

\* the call on buff as it stood at the start of its iteration number j (from 0)
AtIteration(j) == Iterate(CallInit(buff), j)

\* C17 as stated: from the iteration that met a tag byte of 128 or more on,
\* the map stays as it was in that iteration (nothing behind that byte is added).
C17_LongFormTagStalls ==
    buff.n = 0 =>
        \A j \in 0..(num_iterations - 1) :
            (/\ AtIteration(j).pc = "loop"
             /\ HasTag(buff, AtIteration(j).pos)
             /\ ~ShortForm(TagAt(buff, AtIteration(j).pos)))
            => result = AtIteration(j).result

\* the last iteration met a long-form tag in the byte before the cursor
AfterLongFormTag ==
    /\ pos >= 1
    /\ tag = ByteAt(buff, pos - 1)
    /\ ~ShortForm(tag)

\* C17 (amended): an iteration that meets a tag byte of 128 or more consumes
\* that byte only, stores nothing and does not end the decode; the iteration
\* after it reads the following byte as a tag id.
C17_LongFormTagSkipsOneByte ==
    [][ /\ (Looping /\ HasTag(buff, pos) /\ ~ShortForm(TagAt(buff, pos))) =>
               /\ pos' = pos + 1
               /\ result' = result
               /\ pc' = "loop"
               /\ exc' = "none"
               /\ tag' = TagAt(buff, pos)
        /\ (Looping /\ AfterLongFormTag /\ HasTag(buff, pos)) =>
               /\ tag' = ByteAt(buff, pos)
               /\ pos' >= pos + 1 ]_vars

\* a field behind a long-form tag byte has been added to the returned map
C17_Witness ==
    /\ pc = "returned"
    /\ buff.n = 0
    /\ ~ShortForm(ByteAt(buff, 0))
    /\ DOMAIN result = {"checksum"}
    /\ CursorAfterChecksum
    /\ pos = 5

\* ------------------------------------------------------ get_vrt (reader.py)

\* get_vrt calls made on one returned metadata record
MaxVrtCalls == 2

RECURSIVE Concat(_)
Concat(strs) == IF strs = <<>> THEN "" ELSE Head(strs) \o Concat(Tail(strs))

\* sep.join(strs)
RECURSIVE Join(_, _)
Join(strs, sep) ==
    IF strs = <<>> THEN ""
    ELSE IF Len(strs) = 1 THEN strs[1]
    ELSE strs[1] \o sep \o Join(Tail(strs), sep)

\* is d a product of twos and fives, so that n/d has a finite decimal expansion?
RECURSIVE FiniteDecimal(_)
FiniteDecimal(d) ==
    IF d = 1 THEN TRUE
    ELSE IF d % 2 = 0 THEN FiniteDecimal(d \div 2)
    ELSE IF d % 5 = 0 THEN FiniteDecimal(d \div 5)
    ELSE FALSE

\* the decimal digits of rem/d behind the point
RECURSIVE FractionDigits(_, _)
FractionDigits(rem, d) ==
    IF rem = 0 THEN ""
    ELSE ToString((rem * 10) \div d) \o FractionDigits((rem * 10) % d, d)

\* str(x) of a float x = n/d with 1e-4 <= |x| < 1e16 or x = 0: the shortest
\* decimal that reads back as x, which for a short finite decimal is the
\* decimal itself; other values keep a name for their digits
FloatStr(x) ==
    IF FiniteDecimal(x[2])
    THEN (IF x[1] < 0 THEN "-" ELSE "") \o ToString(Abs(x[1]) \div x[2]) \o "."
         \o (IF Abs(x[1]) % x[2] = 0 THEN "0" ELSE FractionDigits(Abs(x[1]) % x[2], x[2]))
    ELSE "repr(" \o ToString(x[1]) \o "/" \o ToString(x[2]) \o ")"

\* str(n) of an int
IntStr(n) == ToString(n)

\* the uuid4 string held in the id of a ground control point
IdStr(id) == id[1] \o "-" \o ToString(id[2])

\* xml.etree.ElementTree.Element: attrib keeps insertion order, a text of
\* None is the empty text
Element(tag_, attrib, text, children) ==
    [tag |-> tag_, attrib |-> attrib, text |-> text, children |-> children]

\* etree.SubElement(parent, ...): the new element is the last child
SubElement(parent, child) == [parent EXCEPT !.children = Append(@, child)]

\* element.find(name): the index of the first child with that tag
Find(element, name) ==
    CHOOSE i \in DOMAIN element.children :
        /\ element.children[i].tag = name
        /\ \A j \in 1..(i - 1) : element.children[j].tag # name

\* element.find(name).text = text
SetText(element, name, text) ==
    [element EXCEPT !.children[Find(element, name)].text = text]

\* etree.tostring(element): no text of the model needs escaping
RECURSIVE ToXml(_)
ToXml(element) ==
    "<" \o element.tag
    \o Concat([i \in DOMAIN element.attrib |->
                  " " \o element.attrib[i][1] \o "=\"" \o element.attrib[i][2] \o "\""])
    \o (IF element.text = "" /\ element.children = <<>> THEN " />"
        ELSE ">" \o element.text
             \o Concat([i \in DOMAIN element.children |-> ToXml(element.children[i])])
             \o "</" \o element.tag \o ">")

\* rasterio.crs.CRS.from_epsg(code).wkt: the well-known text, held by name
Wkt(code) == "GEOGCS[EPSG:" \o ToString(code) \o "]"

\* the coefficients taken in the order of the constructor
to_gdal_AsConstructor(affine) ==
    <<affine.a, affine.b, affine.c, affine.d, affine.e, affine.f>>

\* rasterio.Affine.to_gdal(): (c, a, b, f, d, e)
to_gdal(affine) ==
    <<affine.c, affine.a, affine.b, affine.f, affine.d, affine.e>>

\* rasterio.vrt._boundless_vrt_doc(ds) parsed by etree.fromstring: the raster
\* size, an SRS and a GeoTransform element (a HEIF raster carries no
\* georeference: no SRS text and the identity transform) and one
\* VRTRasterBand per band
ReferenceDoc(file) ==
    Element("VRTDataset",
            << <<"rasterYSize", IntStr(file.frames[1].height)>>,
               <<"rasterXSize", IntStr(file.frames[1].width)>> >>,
            "",
            << Element("SRS", <<>>, "", <<>>),
               Element("GeoTransform", <<>>, "0.0,1.0,0.0,0.0,0.0,1.0", <<>>) >>
            \o [i \in 1..file.count |->
                   Element("VRTRasterBand",
                           << <<"dataType", "Byte">>, <<"band", IntStr(i)>> >>,
                           "", <<>>)])

\* a GCP element whose Pixel is the row and whose Line is the column
GcpElement_PixelIsRow(gcp) ==
    Element("GCP",
            << <<"Id", IdStr(gcp.id)>>,
               <<"Pixel", IntStr(gcp.row)>>,
               <<"Line", IntStr(gcp.col)>>,
               <<"X", FloatStr(gcp.x)>>,
               <<"Y", FloatStr(gcp.y)>> >>,
            "", <<>>)

\* lines 151-156: the GCP element of one ground control point
GcpElement(gcp) ==
    Element("GCP",
            << <<"Id", IdStr(gcp.id)>>,
               <<"Pixel", IntStr(gcp.col)>>,
               <<"Line", IntStr(gcp.row)>>,
               <<"X", FloatStr(gcp.x)>>,
               <<"Y", FloatStr(gcp.y)>> >>,
            "", <<>>)

\* lines 141-156: the tree get_vrt serialises, from the first image of the
\* record and the reference document
VrtTree(images, doc) ==
    LET crs_wkt == Wkt(images[1].crs)
        with_srs == SetText(doc, "SRS", crs_wkt)
        with_geotransform ==
            SetText(with_srs, "GeoTransform",
                    Join([i \in 1..6 |-> FloatStr(to_gdal(images[1].affine)[i])], ","))
        gcp_list ==
            Element("GCPList", << <<"Projection", crs_wkt>> >>, "",
                    [k \in DOMAIN images[1].gcps |-> GcpElement(images[1].gcps[k])])
    IN  SubElement(with_geotransform, gcp_list)

\* the tree of one call and the string it returned
VrtCall(tree) == [tree |-> tree, xml |-> ToXml(tree)]

\* the record with the identifiers of every image's points drawn again
WithIds(images, ids) ==
    [j \in DOMAIN images |->
        [images[j] EXCEPT !.gcps = [k \in DOMAIN @ |-> [@[k] EXCEPT !.id = ids[k]]]]]

\* a get_vrt that gives every point a new uuid4 string
GetVrt_FreshIds ==
    /\ apc = "returned"
    /\ Len(vrts) < MaxVrtCalls
    /\ \E u \in Uuids :
          vrts' = Append(vrts,
                         VrtCall(VrtTree(WithIds(gimi_images, GcpIds(u)),
                                         ReferenceDoc(gimi_file))))
    /\ UNCHANGED <<table, calls, qpc, qexc, dvars, avars>>

\* lines 137-157: get_vrt on the record get_gimi_metadata returned, the file unchanged
GetVrt ==
    /\ apc = "returned"
    /\ Len(vrts) < MaxVrtCalls
    /\ vrts' = Append(vrts, VrtCall(VrtTree(gimi_images, ReferenceDoc(gimi_file))))
    /\ UNCHANGED <<table, calls, qpc, qexc, dvars, avars>>

NextVrt ==
    \/ NextAssemble
    \/ GetVrt

SpecVrt == InitAssemble /\ [][NextVrt]_vars

\* C11: the strings that get_vrt calls on the same record and the same file
\* return are the same, GCP identifiers included.
C11_VrtIdempotent ==
    \A i, j \in DOMAIN vrts :
        /\ vrts[i].xml = vrts[j].xml
        /\ LET gi == vrts[i].tree.children[Len(vrts[i].tree.children)].children
               gj == vrts[j].tree.children[Len(vrts[j].tree.children)].children
           IN  \A k \in DOMAIN gi : gi[k].attrib[1] = gj[k].attrib[1]

C11_Witness ==
    /\ Len(vrts) = 2
    /\ vrts[1].xml = vrts[2].xml
    /\ Len(gimi_images) = 2
    /\ gimi_images[1].gcps[1].id # gimi_images[2].gcps[1].id

\* the children of a tree that are GCPList elements
GcpLists(tree) == { i \in DOMAIN tree.children : tree.children[i].tag = "GCPList" }

\* C12: the returned tree has exactly one GCPList, appended behind the
\* children of the reference document, holding one GCP element per ground
\* control point of the record's first image (4), in the record's order, with
\* Id, Pixel = column, Line = row, X and Y of that point; the scenario's third
\* point (row 800, column 1000, 10 E, 40 N) reads Pixel 1000, Line 800, X
\* 10.0, Y 40.0.
C12_GcpList ==
    \A i \in DOMAIN vrts :
        LET tree == vrts[i].tree
            gcps == gimi_images[1].gcps
            last == Len(tree.children)
        IN  /\ GcpLists(tree) = {last}
            /\ last = Len(ReferenceDoc(gimi_file).children) + 1
            /\ Len(tree.children[last].children) = 4
            /\ Len(gcps) = 4
            /\ \A k \in 1..4 :
                  LET g == tree.children[last].children[k] IN
                  /\ g.tag = "GCP"
                  /\ g.attrib = << <<"Id", IdStr(gcps[k].id)>>,
                                   <<"Pixel", IntStr(gcps[k].col)>>,
                                   <<"Line", IntStr(gcps[k].row)>>,
                                   <<"X", FloatStr(gcps[k].x)>>,
                                   <<"Y", FloatStr(gcps[k].y)>> >>
            /\ IsScenario(gimi_file.frames[1]) =>
                  /\ tree.children[last].children[3].attrib[2] = <<"Pixel", "1000">>
                  /\ tree.children[last].children[3].attrib[3] = <<"Line", "800">>
                  /\ tree.children[last].children[3].attrib[4] = <<"X", "10.0">>
                  /\ tree.children[last].children[3].attrib[5] = <<"Y", "40.0">>

C12_Witness ==
    /\ Len(vrts) >= 1
    /\ IsScenario(gimi_file.frames[1])
    /\ Cardinality(GcpLists(vrts[1].tree)) = 1
    /\ vrts[1].tree.children[Len(vrts[1].tree.children)].children[2].attrib
           = << <<"Id", IdStr(gimi_images[1].gcps[2].id)>>, <<"Pixel", "1000">>,
                <<"Line", "0">>, <<"X", "10.0">>, <<"Y", "50.0">> >>

\* C13: in the returned tree the GeoTransform text is the six coefficients
\* origin_x, pixel_width, row_rotation, origin_y, column_rotation, pixel_height
\* of the first image's affine joined by commas, the rotations reading 0.0; the
\* SRS text is the well-known text of EPSG 4326; the root's tag and attributes
\* and every other element of the reference document are as they were.  The
\* scenario reads -10.0,0.02,0.0,50.0,0.0,-0.0125.
C13_GeoTransformAndSrs ==
    \A i \in DOMAIN vrts :
        LET tree == vrts[i].tree
            doc == ReferenceDoc(gimi_file)
            r == gimi_images[1]
        IN  /\ tree.tag = doc.tag
            /\ tree.attrib = doc.attrib
            /\ tree.text = doc.text
            /\ \A k \in DOMAIN doc.children :
                  IF doc.children[k].tag = "GeoTransform"
                  THEN tree.children[k] =
                         [doc.children[k] EXCEPT !.text =
                             Join(<< FloatStr(r.upper_left_lon), FloatStr(r.x_resolution),
                                     "0.0", FloatStr(r.upper_left_lat), "0.0",
                                     FloatStr(r.y_resolution) >>, ",")]
                  ELSE IF doc.children[k].tag = "SRS"
                  THEN tree.children[k] = [doc.children[k] EXCEPT !.text = Wkt(4326)]
                  ELSE tree.children[k] = doc.children[k]
            /\ IsScenario(gimi_file.frames[1]) =>
                  tree.children[2].text = "-10.0,0.02,0.0,50.0,0.0,-0.0125"

C13_Witness ==
    /\ Len(vrts) >= 1
    /\ IsScenario(gimi_file.frames[1])
    /\ gimi_file.count = 2
    /\ vrts[1].tree.children[1].text = Wkt(4326)
    /\ vrts[1].tree.children[2].text = "-10.0,0.02,0.0,50.0,0.0,-0.0125"
    /\ vrts[1].tree.children[4] = ReferenceDoc(gimi_file).children[4]

\* ----------------------------------------------------- the keys of the map

\* the tag ids the first k iterations read together with a short-form length
\* (short buffers only)
ShortFormTagsRead(k) ==
    { TagAt(buff, AtIteration(j).pos) :
        j \in { i \in 0..(k - 1) :
                  /\ AtIteration(i).pc = "loop"
                  /\ HasSize(buff, AtIteration(i).pos)
                  /\ KnownTag(TagAt(buff, AtIteration(i).pos))
                  /\ ShortForm(SizeAt(buff, AtIteration(i).pos)) } }

\* the field names of a set of tag ids
NamesOf(tags) == { TAG_FORMATS[t].name : t \in tags }

\* C21: the keys of the map are field names of Tag Table entries whose tag id
\* was read with a short-form length: a step adds no key unless it reads a
\* known tag with a short-form length, and then at most that tag's field name;
\* an unknown tag, a long-form tag and a long-form length add none; no key is
\* ever removed and a repeated tag keeps one entry; on the short buffers the
\* keys are among the names of the tags read so far, one key per such tag at most.
C21_KeysAreReadTags ==
    [][ /\ DOMAIN result \subseteq DOMAIN result'
        /\ DOMAIN result' \subseteq
               DOMAIN result \cup
                   (IF /\ Looping
                       /\ HasSize(buff, pos)
                       /\ KnownTag(TagAt(buff, pos))
                       /\ ShortForm(SizeAt(buff, pos))
                    THEN {TAG_FORMATS[TagAt(buff, pos)].name}
                    ELSE {})
        /\ DOMAIN result' \subseteq NamesOf(DOMAIN TAG_FORMATS)
        /\ buff.n = 0 =>
               /\ DOMAIN result' \subseteq NamesOf(ShortFormTagsRead(num_iterations'))
               /\ Cardinality(DOMAIN result')
                      <= Cardinality(ShortFormTagsRead(num_iterations')) ]_vars

\* a title read twice has one entry, the later value
C21_Witness ==
    /\ buff.n = 0
    /\ num_iterations = 2
    /\ ShortFormTagsRead(2) = {3}
    /\ PayloadAt(buff, 0) # payload
    /\ DOMAIN result = {"title"}
    /\ result["title"] = _decode_string(payload)

\* ------------------------------------------------------- the corner angles

CornerTags == 82..89

\* the last iteration decoded the 4-byte payload of a corner tag into the map
CornerFieldDecoded ==
    /\ pc # "raised"
    /\ tag \in CornerTags
    /\ size = 4
    /\ Len(payload) = 4
    /\ TAG_FORMATS[tag].name \in DOMAIN result
    /\ result[TAG_FORMATS[tag].name] =
           ApplyDecoder(TAG_FORMATS[tag].decoder, Unpack(TAG_FORMATS[tag].format_, payload))

\* C22 as stated: the corner tags carry the unsigned format L, so a payload
\* whose top bit is set decodes to a raw value of 2^31 or more and to
\* degrees that are not negative.
C22_CornerTagsUnsigned ==
    (CornerFieldDecoded /\ payload[1] >= 128) =>
        /\ TAG_FORMATS[tag].format_ = "L"
        /\ result[TAG_FORMATS[tag].name].v[1] >= 0

\* raw * scale / 2147483647 lies in [-scale, scale] exactly when
\* -2147483647 <= raw <= 2147483647 (scale is 90 or 180)
DegreesWithinRange(angle) ==
    /\ angle.v[1] >= -2147483647
    /\ angle.v[1] <= 2147483647

\* C24 as stated: every latitude the map holds lies in [-90, 90] and every
\* longitude in [-180, 180].
C24_AnglesInRange ==
    \A k \in DOMAIN result :
        result[k].kind = "deg" => DegreesWithinRange(result[k])

\* ------------------------------------------------ a frame without its fields

\* the frames of the file whose field map was decoded and holds every required field
CompleteFrames ==
    { k \in 1..Len(gimi_file.frames) :
        /\ gimi_file.frames[k].klv_exc = "none"
        /\ RequiredFields \subseteq DOMAIN gimi_file.frames[k].klv_meta }

\* the call is over for a multi-frame file of which one frame lacks a
\* required field and another has them all
EndedWithOneFrameLacking ==
    /\ apc \in {"returned", "raised"}
    /\ gimi_file.supported
    /\ Len(gimi_file.frames) >= 2
    /\ \A k \in 1..Len(gimi_file.frames) : gimi_file.frames[k].klv_exc = "none"
    /\ \E k \in 1..Len(gimi_file.frames) : LacksRequired(gimi_file.frames[k])
    /\ CompleteFrames # {}

\* C23 as stated: the frame that lacks a required field is the only one
\* lost: the call returns and its records are those of the complete frames.
C23_FrameFailureIsLocal ==
    EndedWithOneFrameLacking =>
        /\ apc = "returned"
        /\ Len(gimi_images) = Cardinality(CompleteFrames)

\* ------------------------------------------------- lengths of fixed widths

\* the tags whose wire format has a fixed width: every tag but the string tag 3
FixedWidthTags == { t \in DOMAIN TAG_FORMATS : TAG_FORMATS[t].format_ # "s" }

\* the cursor is at a fixed-width tag whose short-form length byte is not the
\* width of its wire format
WrongLengthAhead ==
    /\ Looping
    /\ HasSize(buff, pos)
    /\ TagAt(buff, pos) \in FixedWidthTags
    /\ ShortForm(SizeAt(buff, pos))
    /\ SizeAt(buff, pos) # CalcSize(TAG_FORMATS[TagAt(buff, pos)].format_, 0)

\* C25 as stated: a fixed-width tag with a short-form length other than its
\* width makes the decode raise, with no value stored for the field.
C25_WrongLengthRaises ==
    [][ WrongLengthAhead =>
          /\ pc' = "raised"
          /\ exc' = "struct.error"
          /\ result' = result ]_vars

\* ------------------------- GimiCoverageProvider.query (pygeoapi_providers/gimi.py)

\* The provider's constructor keeps what get_gimi_metadata returned as
\* _gimi_metadata (a call that raised leaves no provider to query).  A query is
\* followed up to the point where it opens the data file.

\* the arguments of a query: the band list, the axis labels subsets has, the
\* bounding box and the output format
QueryProperties == { <<>>, <<"1">> }
QuerySubsets == SUBSET {"Long", "Lat"}
QueryBboxes == { <<>>, <<-10, 40, 10, 50>> }
QueryFormats == { "json", "GTiff" }

\* __init__, lines 80-89: a provider exists once get_gimi_metadata has returned
\* and images[0] could be read for num_bands
ProviderReady == apc = "returned" /\ Len(gimi_images) > 0

\* line 184: no bands, no subsets, no bbox and a format other than json
NoParameters(properties, subsets, bbox, format_) ==
    properties = <<>> /\ subsets = {} /\ bbox = <<>> /\ format_ # "json"

\* lines 188-190: both axis labels in subsets together with a bbox
Exclusive(subsets, bbox) ==
    "Long" \in subsets /\ "Lat" \in subsets /\ Len(bbox) > 0

\* lines 271-273: the keys read with images[0].bands[...]
BandKeysLookedUp == {0}

\* lines 184-186: the native data is returned at once
QueryNativeData ==
    /\ ProviderReady
    /\ qpc = "idle"
    /\ \E properties \in QueryProperties, subsets \in QuerySubsets,
          bbox \in QueryBboxes, format_ \in QueryFormats :
          NoParameters(properties, subsets, bbox, format_)
    /\ qpc' = "native"
    /\ UNCHANGED <<qexc, table, calls, vrts, dvars, avars>>

\* lines 188-193: bbox and subsetting by coordinates are exclusive
QueryExclusive ==
    /\ ProviderReady
    /\ qpc = "idle"
    /\ \E properties \in QueryProperties, subsets \in QuerySubsets,
          bbox \in QueryBboxes, format_ \in QueryFormats :
          /\ ~NoParameters(properties, subsets, bbox, format_)
          /\ Exclusive(subsets, bbox)
    /\ qpc' = "raised"
    /\ qexc' = "ProviderQueryError"
    /\ UNCHANGED <<table, calls, vrts, dvars, avars>>

\* lines 195-283: the shapes, the band selection and the output coverage
\* metadata, whose band lookups raise KeyError for a key the mapping lacks;
\* then the data file is opened
QueryCoverage ==
    /\ ProviderReady
    /\ qpc = "idle"
    /\ \E properties \in QueryProperties, subsets \in QuerySubsets,
          bbox \in QueryBboxes, format_ \in QueryFormats :
          /\ ~NoParameters(properties, subsets, bbox, format_)
          /\ ~Exclusive(subsets, bbox)
    /\ IF BandKeysLookedUp \subseteq DOMAIN gimi_images[1].bands
       THEN qpc' = "reading" /\ qexc' = qexc
       ELSE qpc' = "raised" /\ qexc' = "KeyError"
    /\ UNCHANGED <<table, calls, vrts, dvars, avars>>

NextQuery ==
    \/ NextAssemble
    \/ QueryNativeData
    \/ QueryExclusive
    \/ QueryCoverage

SpecQuery == InitAssemble /\ [][NextQuery]_vars

\* the query went past the native-data return and the exclusivity check
QueryPastChecks ==
    \/ qpc = "reading"
    \/ qpc = "raised" /\ qexc # "ProviderQueryError"

\* C26 as stated: the band keys query looks up are keys of images[0].bands,
\* which are the positive band indexes, so a query that is past both checks
\* gets to the data read.
C26_BandKeysPresent ==
    QueryPastChecks =>
        /\ DOMAIN gimi_images[1].bands = 1..gimi_file.count
        /\ BandKeysLookedUp \subseteq DOMAIN gimi_images[1].bands
        /\ qpc = "reading"

====
